---------------------------- MODULE Spec2Model ----------------------------
(***************************************************************************)
(* TimelyAds (src/timelads.py): scheduler tick, playback worker threads,   *)
(* pycaw session ducking / restoring ramps and the mic passthrough toggle. *)
(*                                                                         *)
(* Threads.  The Tk main thread runs one handler at a time.  A handler     *)
(* that issues several play_media_async calls (the scheduler tick) is a    *)
(* frame of pending calls on `stack`, executed one call per step, because  *)
(* the worker threads it starts run between those calls.  A modal          *)
(* messagebox blocks its handler and runs a nested event loop in which     *)
(* timer callbacks still fire.                                             *)
(*                                                                         *)
(* Time.  Tk `after` callbacks are a bag of pending timers.  Delays are    *)
(* not measured: a pending callback may fire at any later moment, so the   *)
(* stages of one ramp run in order while callbacks of different ramps      *)
(* interleave freely.  Only the 60 s tick timer is told apart: it is "far" *)
(* when armed and turns "near" (free to fire) once every ramp timer        *)
(* pending at that moment has run out, so two ticks are never closer than  *)
(* a whole ramp.                                                           *)
(*                                                                         *)
(* Volumes are in hundredths (1.0 = 100); ramp arithmetic rounds down to   *)
(* a hundredth.  PYCAW_OK and SOUND_OK are taken to be True.               *)
(***************************************************************************)
EXTENDS Integers, Sequences, FiniteSets, Bags, TLC

\* ------------------------------------------------------------------ bounds
\* button presses and ticks explored by Spec, mic button presses explored by SpecRamp
MaxOps == 2
MaxOpsRamp == 2
\* SpecRepeat: button presses and ticks explored
MaxOpsRepeat == 1
\* worker threads alive at once, and their restore callbacks pending at once
MaxWorkers == 2
MaxRestoreCalls == 2

\* ------------------------------------------------------- program constants
FullVolume == 100
PlayTarget == 6
PlaySteps == 6
MicTarget == 3
MicSteps == 6
WorkerRestoreSteps == 10
MicRestoreSteps == 8
MaxNowRepeats == 50
MaxRepeats == 100
FullGain == 100
MaxSlider == 200

\* ------------------------------------------------------------- environment
OwnPid == 0
OtherPids == {1, 2}
AllPids == OtherPids \cup {OwnPid}
\* a program whose session is closing: calls on its volume interface may raise
FlakyPid == 3
\* a session with no process: s.Process is None
NoPidSession == 4
\* a program whose session gives no ISimpleAudioVolume: QueryInterface raises
NoVolumePid == 5
Sessions == AllPids \cup {FlakyPid, NoPidSession, NoVolumePid}
\* id(s): the identities the session objects of one enumeration can have
Ids == {101, 102}
\* the volume every session has while nothing is ducked
NaturalVolume == (0 :> 100) @@ (1 :> 80) @@ (2 :> 50) @@ (3 :> 70) @@ (4 :> 60) @@ (5 :> 90)

Times == {"09:00", "10:00", "11:00"}
Paths == {"a.mp3", "b.mp3", "c.mp3"}
\* os.path.exists(path): the media files on disk
Exists(path) == path \in Paths
RepeatInputs == {1}
\* repeat counts a playlist file or the repeat dialogs can hold
RepeatValues == {-1, 0, 1, 2, 100, 101}

EmptyMap == [k \in {} |-> 0]

VARIABLES
    playlists,        \* self.playlists, in dict order: <<[name, files, time, active]>>
    current_playlist, \* self.current_playlist (index into playlists)
    is_playing,       \* self._is_playing
    playback_lock,    \* self._playback_lock is held
    workers,          \* bag of running _playback_worker threads
    saved_sessions,   \* self._saved_sessions : key -> baseline
    duck_active,      \* self._duck_active
    mic_active,       \* self._mic_active
    mic_stream,       \* self._mic_stream is not None
    vol,              \* host: master volume of every session
    live,             \* host: sessions GetAllSessions() enumerates
    timers,           \* bag of pending Tk `after` callbacks (ramp stages, restore calls)
    tick_timers,      \* pending _schedule_tick timers: [far |-> n, near |-> m]
    stack,            \* main thread: frames of calls still to make, innermost last
    ep_base,          \* history: volume of each session when first captured in the episode
    tick_played,      \* history: requests of the latest tick that reached mixer.music.play (0, 1, 2 = more)
    ev,               \* history: the last notable event
    budget,           \* exploration: button presses and ticks still to take
    mic_gain,         \* self._mic_gain, in hundredths
    disk,             \* the exported folders on disk: folder -> its config and files
    global_locked     \* self._global_locked

vars == <<playlists, current_playlist, is_playing, playback_lock, workers,
          saved_sessions, duck_active, mic_active, mic_stream, vol, live,
          timers, tick_timers, stack, ep_base, tick_played, ev, budget, mic_gain,
          disk, global_locked>>

\* ------------------------------------------------------------ small helpers
Top == stack[Len(stack)]
Idle == stack = <<>>
InDialog == stack # <<>> /\ Head(Top).op \in {"dialog", "micfail"}
\* the Tk event loop can run a timer callback: mainloop, or a messagebox's nested loop
CanFireTimer == Idle \/ InDialog

PopHead(st) ==
    LET f == Tail(st[Len(st)])
    IN  IF f = <<>> THEN SubSeq(st, 1, Len(st) - 1) ELSE [st EXCEPT ![Len(st)] = f]

PlayOp(m, d) == [op |-> "play", path |-> m.path, repeats |-> m.repeats, duck |-> d]
ArmOp == [op |-> "arm", path |-> "", repeats |-> 0, duck |-> FALSE]
\* m.get(...) on an entry that is a str: AttributeError, after the duck call when d
RaiseOp(d) == [op |-> "raise", path |-> "", repeats |-> 0, duck |-> d]
DialogOp == [op |-> "dialog", path |-> "", repeats |-> 0, duck |-> FALSE]
MicFailOp == [op |-> "micfail", path |-> "", repeats |-> 0, duck |-> FALSE]
ClosedOp == [op |-> "closed", path |-> "", repeats |-> 0, duck |-> FALSE]

Timer(kind, i, steps, target, keys) ==
    [kind |-> kind, i |-> i, steps |-> steps, target |-> target, keys |-> keys]
One(x) == SetToBag({x})
Pending == BagToSet(timers)
NoEvent == [op |-> "none", n |-> 0]
\* a request was accepted; n = 1 when its caller had just called duck_all_sessions
Started(ducked) == [op |-> "started", n |-> IF ducked THEN 1 ELSE 0]

\* ------------------------------------------------------------ ramp arithmetic
Clamp(v) == IF v < 0 THEN 0 ELSE IF v > 100 THEN 100 ELSE v
DuckVolumeLate(orig, target, i, steps) == Clamp(orig + ((target - orig) * (i - 1)) \div steps)
\* duck_all_sessions.step: orig + (target - orig) * (i / steps), clamped
DuckVolume(orig, target, i, steps) == Clamp(orig + ((target - orig) * i) \div steps)
\* restore_all_sessions.step: cur + (orig - cur) * (i / steps), clamped
RestoreVolume(cur, orig, i, steps) == Clamp(cur + ((orig - cur) * i) \div steps)
RestoreFinalVolumeFull(orig) == FullVolume
\* restore_all_sessions.step, last stage: SetMasterVolume(float(orig))
RestoreFinalVolume(orig) == orig

\* --------------------------------------------------------- session enumeration
\* _get_all_audio_sessions: the sessions the host lists
GetAllAudioSessions == live
HasVolumeAlways(s) == TRUE
\* vol_iface is not None
HasVolume(s) == s # NoVolumePid
\* key = pid if pid is not None else id(s), id being the identity of the session's
\* object in this enumeration
Key(s, id) == IF s = NoPidSession THEN id ELSE s
\* the session a key was made for: the (key, vol) pairs of to_duck and vol_map
SessionOf(key) == IF key \in Ids THEN NoPidSession ELSE key
\* the identities an enumeration can give: they only matter for a session without pid
EnumIds == IF NoPidSession \in live THEN Ids ELSE {101}
\* duck_all_sessions: the keys of the sessions left after the exclusions
ToDuck(exclude, id) ==
    {Key(s, id) : s \in {x \in GetAllAudioSessions :
                            HasVolume(x) /\ x \notin exclude /\ x # OwnPid}}
\* restore_all_sessions: the keys of vol_map
VolMap(id) == {Key(s, id) : s \in {x \in GetAllAudioSessions : HasVolume(x)}}
\* vol.GetMasterVolume() in duck_all_sessions: orig = 1.0 when it raises
Orig(k, getfails) == IF getfails /\ k = FlakyPid THEN FullVolume ELSE vol[SessionOf(k)]
\* the calls on a closing session's interface that raise in one pass
NoFails == [get |-> FALSE, set |-> FALSE, final |-> FALSE]
Fails(keys) ==
    IF FlakyPid \in keys THEN [get : BOOLEAN, set : BOOLEAN, final : BOOLEAN] ELSE {NoFails}

Capture(base, keys, getfails) ==
    [k \in DOMAIN base \cup keys |-> IF k \in DOMAIN base THEN base[k] ELSE Orig(k, getfails)]

\* duck_all_sessions(target, {os.getpid()}, steps), with tm the timers so far
DuckAllSessions(target, steps, tm) ==
    \E id \in EnumIds :
        LET keys == ToDuck({OwnPid}, id)
            base == IF duck_active THEN saved_sessions ELSE EmptyMap
        IN  \E f \in Fails(keys) :
              /\ saved_sessions' = Capture(base, keys, f.get)
              /\ ep_base' = Capture(ep_base, keys, f.get)
              /\ IF keys = {}
                   THEN duck_active' = TRUE /\ timers' = tm
                   ELSE /\ duck_active' = duck_active
                        /\ timers' = tm (+) One(Timer("duck", 1, steps, target, keys))

\* restore_all_sessions(steps), with tm the timers so far
RestoreAllSessions(steps, tm) ==
    \E id \in EnumIds :
        timers' = IF saved_sessions = EmptyMap
                    THEN tm
                    ELSE tm (+) One(Timer("restore", 1, steps, 0, VolMap(id)))

\* ------------------------------------------------------------------ scheduler
\* a file entry of an old playlists.json: the path as a plain string, not a dict
Legacy(path) == [legacy |-> path]
\* isinstance(m, dict)
IsDict(m) == "legacy" \notin DOMAIN m
\* _schedule_tick, inner loops: one request per entry of m.times equal to now
RECURSIVE TimeOps(_, _, _)
TimeOps(m, ts, now) ==
    IF ts = <<>> THEN <<>>
    ELSE (IF Head(ts) = now THEN <<PlayOp(m, FALSE)>> ELSE <<>>) \o TimeOps(m, Tail(ts), now)

RECURSIVE ItemOps(_, _)
ItemOps(files, now) ==
    IF files = <<>> THEN <<>>
    ELSE (IF IsDict(Head(files)) THEN TimeOps(Head(files), Head(files).times, now)
          ELSE <<RaiseOp(FALSE)>>)
         \o ItemOps(Tail(files), now)

PlayPlaylistHead(files) == IF files = <<>> THEN <<>> ELSE <<PlayOp(Head(files), TRUE)>>
\* _play_playlist: duck, then play_media_async, for every item
RECURSIVE PlayPlaylistOps(_)
PlayPlaylistOps(files) ==
    IF files = <<>> THEN <<>>
    ELSE <<IF IsDict(Head(files)) THEN PlayOp(Head(files), TRUE) ELSE RaiseOp(TRUE)>>
           \o PlayPlaylistOps(Tail(files))

IsActiveAlways(pl) == TRUE
\* pl.get("active", True)
IsActive(pl) == IF "active" \in DOMAIN pl THEN pl.active ELSE TRUE

\* _schedule_tick: the calls one tick makes, in order, ending with self.after(60000, ...)
RECURSIVE ScheduleOps(_, _)
ScheduleOps(pls, now) ==
    IF pls = <<>> THEN <<ArmOp>>
    ELSE LET pl == Head(pls)
         IN  (IF ~IsActive(pl) THEN <<>>
              ELSE (IF pl.time = now THEN PlayPlaylistOps(pl.files) ELSE <<>>)
                   \o ItemOps(pl.files, now))
             \o ScheduleOps(Tail(pls), now)

\* an exception ends _schedule_tick: the calls up to the one that raises
RECURSIVE UntilRaise(_)
UntilRaise(ops) ==
    IF ops = <<>> THEN <<>>
    ELSE IF Head(ops).op = "raise" THEN <<Head(ops)>>
    ELSE <<Head(ops)>> \o UntilRaise(Tail(ops))

\* ------------------------------------------------------------ playback worker
Worker(pc, path, repeats, left, cur, failed) ==
    [pc |-> pc, path |-> path, repeats |-> repeats, left |-> left,
     cur |-> cur, failed |-> failed, played |-> 0]
\* cur: requested by the latest tick; failed: load or play raised;
\* played: calls of mixer.music.play() whose music has played to its end
NewWorker(path, repeats, cur) == Worker("start", path, repeats, 0, cur, FALSE)
Move(w, w2) == (workers (-) One(w)) (+) One(w2)
InSection(w) == w.pc \in {"load", "play", "busy"}
\* mixer.music.get_busy(): the music some worker started is still playing
GetBusy == \E w \in BagToSet(workers) : w.pc = "busy"
RangeLenShort(r) == r - 1
\* for _ in range(repeats): the iterations still to run when the loop starts
RangeLen(r) == r
\* the worker threads between mixer.music.load and the end of the repeat loop
InSectionCount ==
    BagCardinality([w \in {x \in BagToSet(workers) : InSection(x)} |-> workers[w]])

LockFreeAlways(l) == TRUE
\* with self._playback_lock: the worker enters only when the lock is free
LockFree(l) == ~l

RestoreCallTimer == Timer("restoreCall", 0, WorkerRestoreSteps, 0, {})
NoRestoreScheduled(tm) == tm
\* _playback_worker, finally: self.after(150, lambda: self.restore_all_sessions(10, 150))
ScheduleRestore(tm) == tm (+) One(RestoreCallTimer)

\* play_media_async(path, repeats): TRUE when the request is rejected as busy
Busy == is_playing
PlayMediaAsync(path, repeats, cur) ==
    IF Busy
      THEN UNCHANGED workers
      ELSE workers' = workers (+) One(NewWorker(path, repeats, cur))

\* _playback_worker: self._is_playing = True
WorkerSetPlaying(w) ==
    /\ w.pc = "start"
    /\ is_playing' = TRUE
    /\ workers' = Move(w, [w EXCEPT !.pc = "lock"])
    /\ budget' = budget
    /\ mic_gain' = mic_gain
    /\ disk' = disk
    /\ global_locked' = global_locked
    /\ ev' = NoEvent
    /\ UNCHANGED <<playlists, current_playlist, playback_lock, saved_sessions, duck_active,
                   mic_active, mic_stream, vol, live, timers, tick_timers, stack,
                   ep_base, tick_played>>

\* _playback_worker: with self._playback_lock (acquire)
WorkerAcquire(w) ==
    /\ w.pc = "lock"
    /\ LockFree(playback_lock)
    /\ playback_lock' = TRUE
    /\ workers' = Move(w, [w EXCEPT !.pc = "load"])
    /\ budget' = budget
    /\ mic_gain' = mic_gain
    /\ disk' = disk
    /\ global_locked' = global_locked
    /\ ev' = NoEvent
    /\ UNCHANGED <<playlists, current_playlist, is_playing, saved_sessions, duck_active,
                   mic_active, mic_stream, vol, live, timers, tick_timers, stack,
                   ep_base, tick_played>>

\* _playback_worker: mixer.music.load(path) returns
WorkerLoad(w) ==
    /\ w.pc = "load"
    /\ Exists(w.path)
    /\ workers' = Move(w, [w EXCEPT !.pc = "play", !.left = RangeLen(w.repeats)])
    /\ budget' = budget
    /\ mic_gain' = mic_gain
    /\ disk' = disk
    /\ global_locked' = global_locked
    /\ ev' = NoEvent
    /\ UNCHANGED <<playlists, current_playlist, is_playing, playback_lock, saved_sessions,
                   duck_active, mic_active, mic_stream, vol, live, timers, tick_timers,
                   stack, ep_base, tick_played>>

\* _playback_worker: a repetition starts, mixer.music.play()
WorkerPlay(w) ==
    /\ w.pc = "play"
    /\ w.left > 0
    /\ workers' = Move(w, [w EXCEPT !.pc = "busy", !.left = w.left - 1])
    /\ tick_played' = IF w.cur /\ w.played = 0 /\ tick_played < 2
                        THEN tick_played + 1 ELSE tick_played
    /\ budget' = budget
    /\ mic_gain' = mic_gain
    /\ disk' = disk
    /\ global_locked' = global_locked
    /\ ev' = [op |-> IF GetBusy THEN "playOverBusy" ELSE "play", n |-> w.played]
    /\ UNCHANGED <<playlists, current_playlist, is_playing, playback_lock, saved_sessions,
                   duck_active, mic_active, mic_stream, vol, live, timers, tick_timers,
                   stack, ep_base>>

\* _playback_worker: the music has played to its end, get_busy() returns False
WorkerWait(w) ==
    /\ w.pc = "busy"
    /\ workers' = Move(w, [w EXCEPT !.pc = "play", !.played = w.played + 1])
    /\ budget' = budget
    /\ mic_gain' = mic_gain
    /\ disk' = disk
    /\ global_locked' = global_locked
    /\ ev' = NoEvent
    /\ UNCHANGED <<playlists, current_playlist, is_playing, playback_lock, saved_sessions,
                   duck_active, mic_active, mic_stream, vol, live, timers, tick_timers,
                   stack, ep_base, tick_played>>

\* _playback_worker: the loop is over; leaving the with block releases the lock
WorkerLeave(w) ==
    /\ w.pc = "play"
    /\ w.left <= 0
    /\ playback_lock' = FALSE
    /\ workers' = Move(w, [w EXCEPT !.pc = "finally"])
    /\ budget' = budget
    /\ mic_gain' = mic_gain
    /\ disk' = disk
    /\ global_locked' = global_locked
    /\ ev' = NoEvent
    /\ UNCHANGED <<playlists, current_playlist, is_playing, saved_sessions, duck_active,
                   mic_active, mic_stream, vol, live, timers, tick_timers, stack,
                   ep_base, tick_played>>

\* _playback_worker: load or play raises; the with block releases the lock, except logs
WorkerRaise(w) ==
    /\ w.pc \in {"load", "play"}
    /\ w.pc = "play" => w.left > 0
    /\ playback_lock' = FALSE
    /\ workers' = Move(w, [w EXCEPT !.pc = "finally", !.failed = TRUE])
    /\ budget' = budget
    /\ mic_gain' = mic_gain
    /\ disk' = disk
    /\ global_locked' = global_locked
    /\ ev' = NoEvent
    /\ UNCHANGED <<playlists, current_playlist, is_playing, saved_sessions, duck_active,
                   mic_active, mic_stream, vol, live, timers, tick_timers, stack,
                   ep_base, tick_played>>

\* _playback_worker, finally: clear the flag, schedule the restore; the thread ends
WorkerFinally(w) ==
    /\ w.pc = "finally"
    /\ CopiesIn(RestoreCallTimer, timers) < MaxRestoreCalls
    /\ is_playing' = FALSE
    /\ timers' = ScheduleRestore(timers)
    /\ workers' = workers (-) One(w)
    /\ budget' = budget
    /\ mic_gain' = mic_gain
    /\ disk' = disk
    /\ global_locked' = global_locked
    /\ ev' = [op |-> IF w.failed THEN "workerFailed" ELSE "workerDone", n |-> w.played]
    /\ UNCHANGED <<playlists, current_playlist, playback_lock, saved_sessions, duck_active,
                   mic_active, mic_stream, vol, live, tick_timers, stack, ep_base,
                   tick_played>>

\* ------------------------------------------------------------- ramp stages
\* step, in duck_all_sessions: self._saved_sessions.get(key, 1.0)
Baseline(p) == IF p \in DOMAIN saved_sessions THEN saved_sessions[p] ELSE FullVolume
DuckPending == \E t \in Pending : t.kind = "duck"
\* every duck ramp of the episode has run out, and the restore call saw every tracked session
EpisodeComplete(t) == duck_active /\ ~DuckPending /\ DOMAIN saved_sessions \subseteq t.keys

SetAborts(keys, f) == IF f.set THEN {} ELSE keys
\* the keys whose SetMasterVolume goes through in a pass: an exception is caught per key
SetSucceeds(keys, f) == IF f.set THEN keys \ {FlakyPid} ELSE keys
\* the key under which a pass holds session s, if it holds it
Held(keys, s) == {k \in keys : SessionOf(k) = s}
KeyOf(keys, s) == CHOOSE k \in Held(keys, s) : TRUE

\* duck_all_sessions.step(i), fired by its timer
DuckStage(t) ==
    /\ CanFireTimer
    /\ t \in Pending
    /\ t.kind = "duck"
    /\ \E f \in Fails(t.keys) :
         vol' = [s \in Sessions |->
                   IF Held(SetSucceeds(t.keys, f), s) # {}
                     THEN DuckVolume(Baseline(KeyOf(t.keys, s)), t.target, t.i, t.steps)
                     ELSE vol[s]]
    /\ IF t.i < t.steps
         THEN /\ timers' = (timers (-) One(t)) (+) One([t EXCEPT !.i = t.i + 1])
              /\ duck_active' = duck_active
         ELSE /\ timers' = timers (-) One(t)
              /\ duck_active' = TRUE
    /\ budget' = budget
    /\ mic_gain' = mic_gain
    /\ disk' = disk
    /\ global_locked' = global_locked
    /\ ev' = NoEvent
    /\ UNCHANGED <<playlists, current_playlist, is_playing, playback_lock, workers,
                   saved_sessions, mic_active, mic_stream, live, tick_timers, stack,
                   ep_base, tick_played>>

\* restore_all_sessions.step(i), fired by its timer
RestoreStage(t) ==
    /\ CanFireTimer
    /\ t \in Pending
    /\ t.kind = "restore"
    /\ LET keys == DOMAIN saved_sessions \cap t.keys
       IN  \E f \in Fails(keys) :
           LET \* cur = voliface.GetMasterVolume(), orig when it raises
               cur(k) == IF f.get /\ k = FlakyPid THEN saved_sessions[k] ELSE vol[SessionOf(k)]
               ramped == [s \in Sessions |->
                            IF Held(SetSucceeds(keys, f), s) # {}
                              THEN RestoreVolume(cur(KeyOf(keys, s)),
                                                 saved_sessions[KeyOf(keys, s)], t.i, t.steps)
                              ELSE vol[s]]
               final == IF f.final THEN keys \ {FlakyPid} ELSE keys
           IN  IF t.i < t.steps
                 THEN /\ vol' = ramped
                      /\ timers' = (timers (-) One(t))
                                     (+) One([t EXCEPT !.i = t.i + 1])
                      /\ ev' = NoEvent
                      /\ UNCHANGED <<saved_sessions, duck_active, ep_base>>
                 ELSE /\ vol' = [s \in Sessions |->
                                   IF Held(final, s) # {}
                                     THEN RestoreFinalVolume(saved_sessions[KeyOf(final, s)])
                                     ELSE ramped[s]]
                      /\ timers' = timers (-) One(t)
                      /\ saved_sessions' = EmptyMap
                      /\ duck_active' = FALSE
                      /\ ep_base' = EmptyMap
                      /\ ev' = [op |-> IF EpisodeComplete(t) THEN "restoreFinal"
                                       ELSE "restoreEarly",
                                n |-> Cardinality(keys)]
    /\ UNCHANGED <<playlists, current_playlist, is_playing, playback_lock, workers,
                   mic_active, mic_stream, live, tick_timers, stack, tick_played, budget,
                   mic_gain, disk, global_locked>>

\* the worker's after(150, ...) callback: restore_all_sessions(steps=10, step_ms=150)
RestoreCall(t) ==
    /\ CanFireTimer
    /\ t \in Pending
    /\ t.kind = "restoreCall"
    /\ RestoreAllSessions(t.steps, timers (-) One(t))
    /\ budget' = budget
    /\ mic_gain' = mic_gain
    /\ disk' = disk
    /\ global_locked' = global_locked
    /\ ev' = NoEvent
    /\ UNCHANGED <<playlists, current_playlist, is_playing, playback_lock, workers,
                   saved_sessions, duck_active, mic_active, mic_stream, vol, live,
                   tick_timers, stack, ep_base, tick_played>>

\* ------------------------------------------------------------ main thread
Budget == ~budget.limited \/ budget.left > 0
Spend == IF budget.limited THEN [budget EXCEPT !.left = @ - 1] ELSE budget
Limit(n) == [limited |-> TRUE, left |-> n]
NoLimit == [limited |-> FALSE, left |-> 0]
WorkerRoom == Busy \/ BagCardinality(workers) < MaxWorkers
ClampRepeats(r, hi) == IF r < 1 THEN 1 ELSE IF r > hi THEN hi ELSE r

\* _play_selected_media ("Tocar Agora") on item idx, the dialog answered r
PlaySelectedMedia(idx, r) ==
    /\ Idle
    /\ WorkerRoom
    /\ current_playlist \in 1..Len(playlists)
    /\ idx \in 1..Len(playlists[current_playlist].files)
    /\ LET media == playlists[current_playlist].files[idx]
           rep == ClampRepeats(r, MaxNowRepeats)
       IN  IF Exists(media.path)
             THEN /\ playlists' = [playlists EXCEPT
                                     ![current_playlist].files[idx].repeats = rep]
                  /\ DuckAllSessions(PlayTarget, PlaySteps, timers)
                  /\ PlayMediaAsync(media.path, rep, FALSE)
                  /\ stack' = IF Busy THEN <<<<DialogOp>>>> ELSE stack
                  /\ ev' = IF Busy THEN NoEvent ELSE Started(TRUE)
             ELSE \* messagebox.showerror("Erro", "Arquivo não encontrado."); return
                  /\ stack' = <<<<DialogOp>>>>
                  /\ ev' = NoEvent
                  /\ UNCHANGED <<playlists, workers, saved_sessions, duck_active,
                                 timers, ep_base>>
    /\ Budget
    /\ budget' = Spend
    /\ mic_gain' = mic_gain
    /\ disk' = disk
    /\ global_locked' = global_locked
    /\ UNCHANGED <<current_playlist, is_playing, playback_lock, mic_active, mic_stream,
                   vol, live, tick_timers, tick_played>>

\* _toggle_mic while the mic is off: duck, then _start_mic
\* outcome: "ok", "open" (sd.Stream raises) or "start" (stream.start raises)
MicOn(outcome) ==
    /\ Idle
    /\ ~mic_active
    /\ DuckAllSessions(MicTarget, MicSteps, timers)
    /\ mic_stream' = IF outcome = "open" THEN mic_stream ELSE TRUE
    /\ mic_active' = (outcome = "ok")
    /\ stack' = IF outcome = "ok" THEN stack ELSE <<<<MicFailOp>>>>
    /\ Budget
    /\ budget' = Spend
    /\ mic_gain' = mic_gain
    /\ disk' = disk
    /\ global_locked' = global_locked
    /\ ev' = NoEvent
    /\ UNCHANGED <<playlists, current_playlist, is_playing, playback_lock, workers, vol,
                   live, tick_timers, tick_played>>

StreamLeftOpen == mic_stream
\* _start_mic, except branch: self._mic_stream = None
NoStream == FALSE

\* _start_mic, except branch once messagebox.showerror returns
MicFailDismiss ==
    /\ stack # <<>>
    /\ Head(Top).op = "micfail"
    /\ mic_stream' = NoStream
    /\ mic_active' = FALSE
    /\ stack' = PopHead(stack)
    /\ budget' = budget
    /\ mic_gain' = mic_gain
    /\ disk' = disk
    /\ global_locked' = global_locked
    /\ ev' = [op |-> "micFailed", n |-> 0]
    /\ UNCHANGED <<playlists, current_playlist, is_playing, playback_lock, workers,
                   saved_sessions, duck_active, vol, live, timers, tick_timers, ep_base,
                   tick_played>>

\* _toggle_mic while the mic is on: _stop_mic, then restore_all_sessions(8, 120)
MicOff ==
    /\ Idle
    /\ mic_active
    /\ mic_stream' = FALSE
    /\ mic_active' = FALSE
    /\ RestoreAllSessions(MicRestoreSteps, timers)
    /\ Budget
    /\ budget' = Spend
    /\ mic_gain' = mic_gain
    /\ disk' = disk
    /\ global_locked' = global_locked
    /\ ev' = NoEvent
    /\ UNCHANGED <<playlists, current_playlist, is_playing, playback_lock, workers,
                   saved_sessions, duck_active, vol, live, tick_timers, stack, ep_base,
                   tick_played>>

TimerKept(tt) == tt
\* self.after(60000, self._schedule_tick) is one-shot: the timer that fires is gone
TimerFired(tt) == [tt EXCEPT !.near = @ - 1]

\* _schedule_tick fires with the clock at `now`; its calls are made one by one
ScheduleTick(now) ==
    /\ CanFireTimer
    /\ tick_timers.near > 0
    /\ tick_timers' = TimerFired(tick_timers)
    /\ stack' = Append(stack, UntilRaise(ScheduleOps(playlists, now)))
    /\ workers' = BagOfAll(LAMBDA w : [w EXCEPT !.cur = FALSE], workers)
    /\ tick_played' = 0
    /\ Budget
    /\ budget' = Spend
    /\ mic_gain' = mic_gain
    /\ disk' = disk
    /\ global_locked' = global_locked
    /\ ev' = [op |-> "tick", n |-> 0, now |-> now]
    /\ UNCHANGED <<playlists, current_playlist, is_playing, playback_lock, saved_sessions,
                   duck_active, mic_active, mic_stream, vol, live, timers, ep_base>>

\* the tick's next call: (duck_all_sessions and) play_media_async
TickPlay ==
    /\ stack # <<>>
    /\ Head(Top).op = "play"
    /\ WorkerRoom
    /\ LET o == Head(Top)
       IN  /\ IF o.duck
                THEN DuckAllSessions(PlayTarget, PlaySteps, timers)
                ELSE UNCHANGED <<saved_sessions, duck_active, timers, ep_base>>
           /\ PlayMediaAsync(o.path, o.repeats, TRUE)
           /\ stack' = IF Busy
                         THEN [stack EXCEPT ![Len(stack)] = <<DialogOp>> \o Tail(Top)]
                         ELSE PopHead(stack)
    /\ budget' = budget
    /\ mic_gain' = mic_gain
    /\ disk' = disk
    /\ global_locked' = global_locked
    /\ ev' = IF Busy THEN NoEvent ELSE Started(Head(Top).duck)
    /\ UNCHANGED <<playlists, current_playlist, is_playing, playback_lock, mic_active,
                   mic_stream, vol, live, tick_timers, tick_played>>

\* the tick's next call raises: _schedule_tick is left, Tk reports the exception
TickRaise ==
    /\ stack # <<>>
    /\ Head(Top).op = "raise"
    /\ IF Head(Top).duck
         THEN DuckAllSessions(PlayTarget, PlaySteps, timers)
         ELSE UNCHANGED <<saved_sessions, duck_active, timers, ep_base>>
    /\ stack' = PopHead(stack)
    /\ ev' = [op |-> "tickRaised", n |-> 0]
    /\ UNCHANGED <<playlists, current_playlist, is_playing, playback_lock, workers,
                   mic_active, mic_stream, vol, live, tick_timers, tick_played, budget,
                   mic_gain, disk, global_locked>>

\* _schedule_tick, last line: self.after(60000, self._schedule_tick)
TickArm ==
    /\ stack # <<>>
    /\ Head(Top).op = "arm"
    /\ tick_timers' = [tick_timers EXCEPT !.far = @ + 1]
    /\ stack' = PopHead(stack)
    /\ budget' = budget
    /\ mic_gain' = mic_gain
    /\ disk' = disk
    /\ global_locked' = global_locked
    /\ ev' = NoEvent
    /\ UNCHANGED <<playlists, current_playlist, is_playing, playback_lock, workers,
                   saved_sessions, duck_active, mic_active, mic_stream, vol, live, timers,
                   ep_base, tick_played>>

\* messagebox.showinfo("Já está tocando ...") returns: the user pressed OK
DialogDismiss ==
    /\ stack # <<>>
    /\ Head(Top).op = "dialog"
    /\ stack' = PopHead(stack)
    /\ budget' = budget
    /\ mic_gain' = mic_gain
    /\ disk' = disk
    /\ global_locked' = global_locked
    /\ ev' = NoEvent
    /\ UNCHANGED <<playlists, current_playlist, is_playing, playback_lock, workers,
                   saved_sessions, duck_active, mic_active, mic_stream, vol, live, timers,
                   tick_timers, ep_base, tick_played>>

\* ------------------------------------------------------------ mic passthrough
\* the mic volume slider: ttk.Scale(from_=0, to=200)
SliderValues == {0, 50, 100, 150, MaxSlider}
\* input blocks: mono samples
Samples == {-1, 0, 2}
Blocks == [1..2 -> Samples]
MicGainCapped(v) == IF v < 0 THEN 0 ELSE IF v > FullGain THEN FullGain ELSE v
\* _on_mic_vol_change: max(0.0, v / 100.0), in hundredths
MicGain(v) == IF v < 0 THEN 0 ELSE v
\* callback: data = indata * self._mic_gain, copied to both output channels;
\* output samples are in hundredths of an input unit
Callback(indata, gain) == [k \in DOMAIN indata |-> <<indata[k] * gain, indata[k] * gain>>]

\* _on_mic_vol_change: the slider is moved to v
OnMicVolChange(v) ==
    /\ Idle
    /\ mic_gain' = MicGain(v)
    /\ disk' = disk
    /\ global_locked' = global_locked
    /\ ev' = [op |-> "gain", n |-> v]
    /\ UNCHANGED <<playlists, current_playlist, is_playing, playback_lock, workers,
                   saved_sessions, duck_active, mic_active, mic_stream, vol, live, timers,
                   tick_timers, stack, ep_base, tick_played, budget>>

\* _start_mic.callback: the running stream hands over one input block
MicCallback(indata) ==
    /\ mic_active
    /\ ev' = [op |-> "block", n |-> mic_gain, in |-> indata, out |-> Callback(indata, mic_gain)]
    /\ UNCHANGED <<playlists, current_playlist, is_playing, playback_lock, workers,
                   saved_sessions, duck_active, mic_active, mic_stream, vol, live, timers,
                   tick_timers, stack, ep_base, tick_played, budget, mic_gain,
                   disk, global_locked>>

\* ------------------------------------------------------------ import / export
\* list.pop(k), dict.pop(key): the entries before and after
RemoveAt(seq, k) == SubSeq(seq, 1, k - 1) \o SubSeq(seq, k + 1, Len(seq))
\* os.path.join
Join(folder, fname) == folder \o "/" \o fname
\* the folder the user picks in askdirectory when exporting
ExportParent == "usb"
\* names a playlist can carry: the original and the keys _import_playlist makes up
PlaylistNames == {"FM", "FM_1", "FM_2"}
ExportFolder(name) == Join(ExportParent, "export_" \o name)
Folders == {"old"} \cup {ExportFolder(name) : name \in PlaylistNames}
FileNames == {"a.mp3", "b.mp3", "gone.mp3"}
\* os.path.basename: the last component of the path
Basename(path) ==
    LET last == {f \in FileNames : \E dir \in Folders : path = Join(dir, f)}
    IN  IF last = {} THEN path ELSE CHOOSE f \in last : TRUE
\* os.path.exists: a media file, or a file copied into an exported folder
OnDisk(path) ==
    \/ Exists(path)
    \/ path = Join("old", "a.mp3")
    \/ \E folder \in DOMAIN disk : \E f \in disk[folder].copied : path = Join(folder, f)

\* _export_playlist, the loop: the entries whose file exists and was copied, their
\* paths cut to the file name
RECURSIVE Exported(_, _)
Exported(files, failing) ==
    IF files = <<>> THEN <<>>
    ELSE LET m == Head(files)
             rest == Exported(Tail(files), failing)
         IN  IF ~OnDisk(m.path) \/ m.path \in failing THEN rest
             ELSE <<[path |-> Basename(m.path), times |-> m.times, repeats |-> m.repeats]>>
                    \o rest
\* _import_playlist, the loop: the entries whose file is in the folder, their paths
\* joined to the folder
RECURSIVE Imported(_, _)
Imported(folder, files) ==
    IF files = <<>> THEN <<>>
    ELSE LET entry == Head(files)
             rest == Imported(folder, Tail(files))
         IN  IF OnDisk(Join(folder, entry.path))
                THEN <<[path |-> Join(folder, entry.path), times |-> entry.times,
                        repeats |-> entry.repeats]>> \o rest
                ELSE rest
NamesIn(pls) == {pls[i].name : i \in DOMAIN pls}
\* the position of key name in the playlists, 0 when it is not a key
IndexOf(name, pls) ==
    IF name \in NamesIn(pls) THEN CHOOSE i \in DOMAIN pls : pls[i].name = name ELSE 0
\* self.playlists[name] = pl: a new key goes last, an existing key gets the new value
Put(pls, name, pl) ==
    IF IndexOf(name, pls) = 0 THEN Append(pls, pl) ELSE [pls EXCEPT ![IndexOf(name, pls)] = pl]
FreeNameTaken(base, i, pls) == base
\* _import_playlist: name, name_1, name_2, ... until the key is free
RECURSIVE FreeName(_, _, _)
FreeName(base, i, pls) ==
    LET name == IF i = 0 THEN base ELSE base \o "_" \o ToString(i)
    IN  IF name \in NamesIn(pls) THEN FreeName(base, i + 1, pls) ELSE name
\* shutil.rmtree(export_folder)
RemoveFolder(folder) == [f \in DOMAIN disk \ {folder} |-> disk[f]]
\* shutil.copy2 into the folder and the write of playlist_config.json; src keeps the
\* files list the export was made from
WriteFolder(folder, pl, exported) ==
    [f \in DOMAIN disk \cup {folder} |->
        IF f = folder
           THEN [cfg |-> [files |-> exported, time |-> pl.time, name |-> pl.name],
                 copied |-> (IF folder \in DOMAIN disk THEN disk[folder].copied ELSE {})
                              \cup {exported[k].path : k \in DOMAIN exported},
                 src |-> pl.files]
           ELSE disk[f]]

\* _export_playlist; failing: the files shutil.copy2 raises on
ExportPlaylist(failing) ==
    /\ Idle
    /\ Budget
    /\ budget' = Spend
    /\ LET named == current_playlist \in 1..Len(playlists)
           pl == playlists[current_playlist]
           folder == ExportFolder(pl.name)
           exported == Exported(pl.files, failing)
       IN  /\ disk' = IF ~named THEN disk
                      ELSE IF exported = <<>> THEN RemoveFolder(folder)
                      ELSE WriteFolder(folder, pl, exported)
           /\ ev' = IF named /\ exported # <<>>
                       THEN [op |-> "exported", n |-> Len(exported), folder |-> folder]
                       ELSE NoEvent
    /\ stack' = <<<<DialogOp>>>>
    /\ UNCHANGED <<playlists, current_playlist, is_playing, playback_lock, workers,
                   saved_sessions, duck_active, mic_active, mic_stream, vol, live, timers,
                   tick_timers, ep_base, tick_played, mic_gain, global_locked>>

\* _import_playlist; folder: the folder the user picks
ImportPlaylist(folder) ==
    /\ Idle
    /\ Budget
    /\ budget' = Spend
    /\ IF folder \notin DOMAIN disk
          THEN /\ stack' = <<<<DialogOp>>>>
               /\ ev' = NoEvent
               /\ UNCHANGED <<playlists, current_playlist>>
          ELSE LET cfg == disk[folder].cfg
                   name == FreeName(cfg.name, 0, playlists)
                   imported == Imported(folder, cfg.files)
               IN  IF imported = <<>>
                      THEN /\ stack' = <<<<DialogOp>>>>
                           /\ ev' = NoEvent
                           /\ UNCHANGED <<playlists, current_playlist>>
                      ELSE /\ playlists' = Put(playlists, name,
                                  [name |-> name, time |-> cfg.time, active |-> TRUE,
                                   files |-> imported])
                           /\ current_playlist' = IndexOf(name, playlists')
                           /\ stack' = stack
                           /\ ev' = [op |-> "imported", n |-> Len(imported),
                                     folder |-> folder]
    /\ UNCHANGED <<is_playing, playback_lock, workers, saved_sessions, duck_active,
                   mic_active, mic_stream, vol, live, timers, tick_timers, ep_base,
                   tick_played, mic_gain, disk, global_locked>>

\* _delete_playlist, the question answered with yes
DeletePlaylist ==
    /\ Idle
    /\ Budget
    /\ budget' = Spend
    /\ IF current_playlist \in 1..Len(playlists)
          THEN /\ playlists' = RemoveAt(playlists, current_playlist)
               \* _refresh_playlist_list: None is not a name, the first one is selected
               /\ current_playlist' = IF Len(playlists) > 1 THEN 1 ELSE 0
               /\ stack' = stack
          ELSE /\ stack' = <<<<DialogOp>>>>
               /\ UNCHANGED <<playlists, current_playlist>>
    /\ ev' = NoEvent
    /\ UNCHANGED <<is_playing, playback_lock, workers, saved_sessions, duck_active,
                   mic_active, mic_stream, vol, live, timers, tick_timers, ep_base,
                   tick_played, mic_gain, disk, global_locked>>

\* ------------------------------------------------------------ playlist list
\* what the user may answer to "Novo nome:"; "" is an empty answer or Cancel
NameInputs == {"", "FM", "Dia a Dia", "Novo"}

\* _rename_playlist, the dialog answered new
RenamePlaylist(new) ==
    /\ Idle
    /\ Budget
    /\ budget' = Spend
    /\ IF current_playlist \notin 1..Len(playlists)
          THEN /\ stack' = <<<<DialogOp>>>>
               /\ ev' = NoEvent
               /\ UNCHANGED <<playlists, current_playlist>>
          ELSE IF new = "" \/ new = playlists[current_playlist].name
          THEN /\ ev' = NoEvent
               /\ UNCHANGED <<playlists, current_playlist, stack>>
          ELSE \* self.playlists[new] = self.playlists.pop(self.current_playlist)
               /\ playlists' = Put(RemoveAt(playlists, current_playlist), new,
                                   [playlists[current_playlist] EXCEPT !.name = new])
               /\ current_playlist' = IndexOf(new, playlists')
               /\ stack' = stack
               /\ ev' = [op |-> "renamed", n |-> current_playlist, new |-> new]
    /\ UNCHANGED <<is_playing, playback_lock, workers, saved_sessions, duck_active,
                   mic_active, mic_stream, vol, live, timers, tick_timers, ep_base,
                   tick_played, mic_gain, disk, global_locked>>

\* _on_select_playlist: row i of the playlist list is clicked
OnSelectPlaylist(i) ==
    /\ Idle
    /\ i \in 1..Len(playlists)
    /\ current_playlist' = i
    /\ ev' = NoEvent
    /\ UNCHANGED <<playlists, is_playing, playback_lock, workers, saved_sessions,
                   duck_active, mic_active, mic_stream, vol, live, timers, tick_timers,
                   stack, ep_base, tick_played, budget, mic_gain, disk, global_locked>>

\* ------------------------------------------------------------ schedule editor
\* a text typed into a dialog is a sequence of characters; Str is the string stored
RECURSIVE Str(_)
Str(chars) == IF chars = <<>> THEN "" ELSE Head(chars) \o Str(Tail(chars))
Digits == {"0", "1", "2", "3", "4", "5", "6", "7", "8", "9"}
\* %H of time.strptime: 2[0-3] | [0-1]\d | \d
MatchesHour(h) ==
    \/ Len(h) = 2 /\ h[1] = "2" /\ h[2] \in {"0", "1", "2", "3"}
    \/ Len(h) = 2 /\ h[1] \in {"0", "1"} /\ h[2] \in Digits
    \/ Len(h) = 1 /\ h[1] \in Digits
\* %M of time.strptime: [0-5]\d | \d
MatchesMinute(m) ==
    \/ Len(m) = 2 /\ m[1] \in {"0", "1", "2", "3", "4", "5"} /\ m[2] \in Digits
    \/ Len(m) = 1 /\ m[1] \in Digits
\* time.strptime(new, "%H:%M") does not raise: the whole text is hour, colon, minute
Strptime(chars) ==
    \E k \in 1..Len(chars) :
        /\ chars[k] = ":"
        /\ MatchesHour(SubSeq(chars, 1, k - 1))
        /\ MatchesMinute(SubSeq(chars, k + 1, Len(chars)))
\* what the user may type for a time; <<>> is an empty answer or Cancel
TimeInputs ==
    {<<>>,
     <<"1", "0", ":", "0", "0">>,
     <<"2", "3", ":", "5", "9">>,
     <<"9", ":", "0", "0">>,
     <<"0", "9", ":", "5">>,
     <<"2", "4", ":", "0", "0">>,
     <<"0", "9", ":", "6", "0">>,
     <<"a", "b">>}
\* _open_schedule_editor finds its item
SCHEDULE_PIN == "4510"
\* what the user may type as PIN
Pins == {SCHEDULE_PIN, "0000"}
\* if self._global_locked: pin = askstring(...); if pin != SCHEDULE_PIN: ... return
PinPasses(pin) == ~global_locked \/ pin = SCHEDULE_PIN
\* the selected row idx is an item of the current playlist
ItemSelected(idx) ==
    /\ current_playlist \in 1..Len(playlists)
    /\ idx \in 1..Len(playlists[current_playlist].files)
\* the schedule editor is open on item idx: every handler that opens it unlocks first,
\* and its grab keeps the lock button out of reach while it is open
EditorOpens(idx) ==
    /\ ItemSelected(idx)
    /\ ~global_locked

\* _on_tree_double_click on row idx, the PIN dialog (if any) answered pin; the click on
\* the time column and _ctx_set_time do the same
OnTreeDoubleClick(idx, pin) ==
    /\ Idle
    /\ ItemSelected(idx)
    /\ global_locked' = IF PinPasses(pin) THEN FALSE ELSE global_locked
    /\ stack' = IF PinPasses(pin) THEN stack ELSE <<<<DialogOp>>>>
    /\ ev' = NoEvent
    /\ UNCHANGED <<playlists, current_playlist, is_playing, playback_lock, workers,
                   saved_sessions, duck_active, mic_active, mic_stream, vol, live, timers,
                   tick_timers, ep_base, tick_played, budget, mic_gain, disk>>

\* _toggle_global_lock, the PIN dialog (if any) answered pin
ToggleGlobalLock(pin) ==
    /\ Idle
    /\ global_locked' = IF global_locked THEN pin # SCHEDULE_PIN ELSE TRUE
    /\ stack' = <<<<DialogOp>>>>
    /\ ev' = NoEvent
    /\ UNCHANGED <<playlists, current_playlist, is_playing, playback_lock, workers,
                   saved_sessions, duck_active, mic_active, mic_stream, vol, live, timers,
                   tick_timers, ep_base, tick_played, budget, mic_gain, disk>>

\* _ctx_remove_item on item idx, the PIN dialog (if any) answered pin, the question yes
CtxRemoveItem(idx, pin) ==
    /\ Idle
    /\ ItemSelected(idx)
    /\ Budget
    /\ budget' = Spend
    /\ IF PinPasses(pin)
         THEN /\ global_locked' = FALSE
              /\ playlists' = [playlists EXCEPT
                                 ![current_playlist].files = RemoveAt(@, idx)]
              /\ stack' = stack
         ELSE /\ stack' = <<<<DialogOp>>>>
              /\ UNCHANGED <<playlists, global_locked>>
    /\ ev' = NoEvent
    /\ UNCHANGED <<current_playlist, is_playing, playback_lock, workers, saved_sessions,
                   duck_active, mic_active, mic_stream, vol, live, timers, tick_timers,
                   ep_base, tick_played, mic_gain, disk>>

\* _open_schedule_editor.add_time, the dialog answered new
AddTime(idx, new) ==
    /\ Idle
    /\ EditorOpens(idx)
    /\ Budget
    /\ budget' = Spend
    /\ IF new = <<>>
          THEN UNCHANGED <<playlists, stack>>
          ELSE IF Strptime(new)
          THEN /\ playlists' = [playlists EXCEPT
                                  ![current_playlist].files[idx].times = Append(@, Str(new))]
               /\ stack' = stack
          ELSE /\ stack' = <<<<DialogOp>>>>
               /\ UNCHANGED playlists
    /\ ev' = [op |-> "addTime", n |-> idx, new |-> Str(new)]
    /\ UNCHANGED <<current_playlist, is_playing, playback_lock, workers, saved_sessions,
                   duck_active, mic_active, mic_stream, vol, live, timers, tick_timers,
                   ep_base, tick_played, mic_gain, disk, global_locked>>

\* _open_schedule_editor.edit_time on the selected row sel, the dialog answered new
EditTime(idx, sel, new) ==
    /\ Idle
    /\ EditorOpens(idx)
    /\ sel \in DOMAIN playlists[current_playlist].files[idx].times
    /\ Budget
    /\ budget' = Spend
    /\ IF new = <<>>
          THEN UNCHANGED <<playlists, stack>>
          ELSE IF Strptime(new)
          THEN /\ playlists' = [playlists EXCEPT
                                  ![current_playlist].files[idx].times[sel] = Str(new)]
               /\ stack' = stack
          ELSE /\ stack' = <<<<DialogOp>>>>
               /\ UNCHANGED playlists
    /\ ev' = [op |-> "editTime", n |-> idx, new |-> Str(new)]
    /\ UNCHANGED <<current_playlist, is_playing, playback_lock, workers, saved_sessions,
                   duck_active, mic_active, mic_stream, vol, live, timers, tick_timers,
                   ep_base, tick_played, mic_gain, disk, global_locked>>

\* _open_schedule_editor.remove_time on the selected row sel, the question answered yes
RemoveTime(idx, sel) ==
    /\ Idle
    /\ EditorOpens(idx)
    /\ sel \in DOMAIN playlists[current_playlist].files[idx].times
    /\ Budget
    /\ budget' = Spend
    /\ playlists' = [playlists EXCEPT
                       ![current_playlist].files[idx].times = RemoveAt(@, sel)]
    /\ ev' = [op |-> "removeTime", n |-> idx, new |-> ""]
    /\ UNCHANGED <<current_playlist, is_playing, playback_lock, workers, saved_sessions,
                   duck_active, mic_active, mic_stream, vol, live, timers, tick_timers,
                   stack, ep_base, tick_played, mic_gain, disk, global_locked>>

\* _open_schedule_editor.save_and_close, the spinbox holding r
SaveAndClose(idx, r) ==
    /\ Idle
    /\ EditorOpens(idx)
    /\ Budget
    /\ budget' = Spend
    /\ playlists' = [playlists EXCEPT ![current_playlist].files[idx].repeats = r]
    /\ ev' = [op |-> "saveRepeats", n |-> r]
    /\ UNCHANGED <<current_playlist, is_playing, playback_lock, workers, saved_sessions,
                   duck_active, mic_active, mic_stream, vol, live, timers, tick_timers,
                   stack, ep_base, tick_played, mic_gain, disk, global_locked>>

\* _ctx_set_repeat on item idx, the PIN dialog (if any) answered pin, the other r
CtxSetRepeat(idx, pin, r) ==
    /\ Idle
    /\ ItemSelected(idx)
    /\ Budget
    /\ budget' = Spend
    /\ IF PinPasses(pin)
         THEN /\ global_locked' = FALSE
              /\ playlists' = [playlists EXCEPT
                     ![current_playlist].files[idx].repeats = ClampRepeats(r, MaxRepeats)]
              /\ stack' = stack
              /\ ev' = [op |-> "setRepeats", n |-> r]
         ELSE /\ stack' = <<<<DialogOp>>>>
              /\ ev' = NoEvent
              /\ UNCHANGED <<playlists, global_locked>>
    /\ UNCHANGED <<current_playlist, is_playing, playback_lock, workers, saved_sessions,
                   duck_active, mic_active, mic_stream, vol, live, timers, tick_timers,
                   ep_base, tick_played, mic_gain, disk>>

\* self.destroy(): the window and its Tcl interpreter are gone, no handler runs again
Closed == stack # <<>> /\ Head(Top).op = "closed"

\* _on_close (WM_DELETE_WINDOW): _stop_mic, restore_all_sessions(1, 10), save, destroy.
\* restore_all_sessions only schedules step(1) with after(0, ...); the handler goes on
\* to self.destroy(), which discards every pending callback, and the process ends.
OnClose ==
    /\ Idle
    /\ mic_stream' = IF mic_active THEN FALSE ELSE mic_stream
    /\ mic_active' = FALSE
    /\ timers' = EmptyBag
    /\ tick_timers' = [far |-> 0, near |-> 0]
    /\ workers' = EmptyBag
    /\ stack' = <<<<ClosedOp>>>>
    /\ budget' = budget
    /\ mic_gain' = mic_gain
    /\ disk' = disk
    /\ global_locked' = global_locked
    /\ ev' = [op |-> "closed", n |-> Cardinality(DOMAIN saved_sessions)]
    /\ UNCHANGED <<playlists, current_playlist, is_playing, playback_lock, saved_sessions,
                   duck_active, vol, live, ep_base, tick_played>>

\* ------------------------------------------------------------ environment
\* another program opens an audio session
SessionAppear(p) ==
    /\ p \in Sessions \ live
    /\ live' = live \cup {p}
    /\ budget' = budget
    /\ mic_gain' = mic_gain
    /\ disk' = disk
    /\ global_locked' = global_locked
    /\ ev' = NoEvent
    /\ UNCHANGED <<playlists, current_playlist, is_playing, playback_lock, workers,
                   saved_sessions, duck_active, mic_active, mic_stream, vol, timers,
                   tick_timers, stack, ep_base, tick_played>>

\* the rest of the minute passes: every ramp timer has run out
AdvanceLong ==
    /\ CanFireTimer
    /\ timers = EmptyBag
    /\ tick_timers.far > 0
    /\ tick_timers' = [far |-> 0, near |-> tick_timers.near + tick_timers.far]
    /\ budget' = budget
    /\ mic_gain' = mic_gain
    /\ disk' = disk
    /\ global_locked' = global_locked
    /\ ev' = NoEvent
    /\ UNCHANGED <<playlists, current_playlist, is_playing, playback_lock, workers,
                   saved_sessions, duck_active, mic_active, mic_stream, vol, live, timers,
                   stack, ep_base, tick_played>>

\* ------------------------------------------------------------ specification
Item(path, times, repeats) == [path |-> path, times |-> times, repeats |-> repeats]
\* one playlist, fired as a whole at 09:00, its items fired on their own at 10:00
OneItem == <<Item("a.mp3", <<"10:00">>, 1)>>
TwoItems == <<Item("a.mp3", <<"10:00">>, 1), Item("b.mp3", <<"10:00">>, 2)>>
Playlists(files) == <<[name |-> "FM", time |-> "09:00", active |-> TRUE, files |-> files]>>

\* the state __init__ leaves, the first _schedule_tick about to run
\* the state __init__ leaves, with the sessions other programs have open
StartFrom(pls, sessions) ==
    /\ playlists = pls
    /\ current_playlist = 1
    /\ is_playing = FALSE
    /\ playback_lock = FALSE
    /\ workers = EmptyBag
    /\ saved_sessions = EmptyMap
    /\ duck_active = FALSE
    /\ mic_active = FALSE
    /\ mic_stream = FALSE
    /\ vol = NaturalVolume
    /\ live = {OwnPid} \cup sessions
    /\ timers = EmptyBag
    /\ tick_timers = [far |-> 0, near |-> 1]
    /\ stack = <<>>
    /\ ep_base = EmptyMap
    /\ tick_played = 0
    /\ ev = NoEvent
    /\ mic_gain = FullGain
    /\ disk = EmptyMap
    /\ global_locked = TRUE
StartWith(files, sessions) == StartFrom(Playlists(files), sessions)
Start(files) == StartWith(files, {})

\* the steps of a worker whose load and play succeed
WorkerRuns ==
    \/ \E w \in BagToSet(workers) : WorkerSetPlaying(w)
    \/ \E w \in BagToSet(workers) : WorkerAcquire(w)
    \/ \E w \in BagToSet(workers) : WorkerLoad(w)
    \/ \E w \in BagToSet(workers) : WorkerPlay(w)
    \/ \E w \in BagToSet(workers) : WorkerWait(w)
    \/ \E w \in BagToSet(workers) : WorkerLeave(w)
    \/ \E w \in BagToSet(workers) : WorkerFinally(w)
WorkerNext == WorkerRuns \/ \E w \in BagToSet(workers) : WorkerRaise(w)

PlayNext ==
    \/ \E t \in BagToSet(timers) : RestoreCall(t)
    \/ \E idx \in 1..2, r \in RepeatInputs : PlaySelectedMedia(idx, r)
    \/ \E now \in Times : ScheduleTick(now)
    \/ TickPlay
    \/ TickArm
    \/ DialogDismiss
    \/ AdvanceLong

RampNext ==
    \/ \E t \in BagToSet(timers) : DuckStage(t)
    \/ \E t \in BagToSet(timers) : RestoreStage(t)
    \/ \E outcome \in {"ok", "open", "start"} : MicOn(outcome)
    \/ MicFailDismiss
    \/ MicOff

\* the whole program: one item in the playlist, one other audio session on the host;
\* pygame's failures are explored by SpecPlay
Init == Start(OneItem) /\ budget = Limit(MaxOps)
Next == WorkerRuns \/ PlayNext \/ RampNext \/ SessionAppear(1)
Spec == Init /\ [][Next]_vars

\* playback alone, runs of any length: two items in the playlist, no other program
\* has an audio session, the mic is not used
InitPlay == Start(TwoItems) /\ budget = NoLimit
NextPlay == WorkerNext \/ PlayNext
SpecPlay == InitPlay /\ [][NextPlay]_vars

\* ducking alone: the mic button and the ramps, two other audio sessions
InitRamp == Start(OneItem) /\ budget = Limit(MaxOpsRamp)
NextRamp == RampNext \/ \E p \in OtherPids : SessionAppear(p)
SpecRamp == InitRamp /\ [][NextRamp]_vars

\* the first tick, with the clock at any minute, over two playlists: FM with two items
\* and "Dia a Dia" with one; active flags (or none), the second playlist's time and
\* the first item's times vary; the files play without error
TickPlaylists ==
    {<<p1, p2>> :
        p1 \in {pl @@ [name |-> "FM", time |-> "09:00",
                        files |-> <<Item("a.mp3", ts, 1), Item("b.mp3", <<>>, 1)>>] :
                   pl \in {[active |-> TRUE], [active |-> FALSE], [name |-> "FM"]},
                   ts \in {<<>>, <<"09:00">>, <<"10:00", "11:00">>, <<"10:00", "10:00">>}},
        p2 \in {[name |-> "Dia a Dia", time |-> t, active |-> a,
                  files |-> <<Item("c.mp3", <<"10:00">>, 1)>>] :
                   t \in {"09:00", "10:00"}, a \in BOOLEAN}}
InitTick ==
    /\ \E pls \in TickPlaylists : playlists = pls
    /\ current_playlist = 1
    /\ is_playing = FALSE
    /\ playback_lock = FALSE
    /\ workers = EmptyBag
    /\ saved_sessions = EmptyMap
    /\ duck_active = FALSE
    /\ mic_active = FALSE
    /\ mic_stream = FALSE
    /\ vol = NaturalVolume
    /\ live = {OwnPid}
    /\ timers = EmptyBag
    /\ tick_timers = [far |-> 0, near |-> 1]
    /\ stack = <<>>
    /\ ep_base = EmptyMap
    /\ tick_played = 0
    /\ ev = NoEvent
    /\ mic_gain = FullGain
    /\ disk = EmptyMap
    /\ global_locked = TRUE
    /\ budget = NoLimit
NextTick ==
    \/ \E now \in Times : ScheduleTick(now)
    \/ TickPlay
    \/ TickArm
    \/ DialogDismiss
    \/ \E t \in BagToSet(timers) : RestoreCall(t)
    \/ \E w \in BagToSet(workers) : WorkerSetPlaying(w)
    \/ \E w \in BagToSet(workers) : WorkerAcquire(w)
    \/ \E w \in BagToSet(workers) : WorkerLoad(w)
    \/ \E w \in BagToSet(workers) : WorkerPlay(w)
    \/ \E w \in BagToSet(workers) : WorkerWait(w)
    \/ \E w \in BagToSet(workers) : WorkerLeave(w)
    \/ \E w \in BagToSet(workers) : WorkerFinally(w)
SpecTick == InitTick /\ [][NextTick]_vars

\* ducking and closing: the mic button, the ramps and the window's close button
NextClose == NextRamp \/ OnClose
SpecClose == InitRamp /\ [][NextClose]_vars

\* the mic alone: the button, the volume slider and the stream's callback
NextMic ==
    \/ \E outcome \in {"ok", "open", "start"} : MicOn(outcome)
    \/ MicFailDismiss
    \/ MicOff
    \/ \E v \in SliderValues : OnMicVolChange(v)
    \/ \E indata \in Blocks : MicCallback(indata)
SpecMic == InitRamp /\ [][NextMic]_vars

\* export and import: one playlist of up to two items, a file of which may be gone
\* or sit in another folder, exported, deleted and imported back
MaxOpsBundle == 3
BundleItems ==
    {Item(path, times, r) : path \in {"a.mp3", "b.mp3", "gone.mp3", Join("old", "a.mp3")},
                            times \in {<<>>, <<"09:00", "10:00">>}, r \in {1, 3}}
BundleFiles == {<<i>> : i \in BundleItems} \cup {<<i, j>> : i, j \in BundleItems}
InitBundle == (\E files \in BundleFiles : Start(files)) /\ budget = Limit(MaxOpsBundle)
NextBundle ==
    \/ \E failing \in SUBSET {"b.mp3"} : ExportPlaylist(failing)
    \/ \E folder \in Folders : ImportPlaylist(folder)
    \/ DeletePlaylist
    \/ DialogDismiss
SpecBundle == InitBundle /\ [][NextBundle]_vars

\* editing: one item with one valid time and repeats 1, its times and repeats edited
\* through the schedule editor and the context menu
MaxOpsEdit == 3
InitEdit == Start(<<Item("a.mp3", <<"09:00">>, 1)>>) /\ budget = Limit(MaxOpsEdit)
NextEdit ==
    \/ \E new \in TimeInputs : AddTime(1, new)
    \/ \E sel \in 1..MaxOpsEdit + 1, new \in TimeInputs : EditTime(1, sel, new)
    \/ \E sel \in 1..MaxOpsEdit + 1 : RemoveTime(1, sel)
    \/ \E r \in RepeatValues : SaveAndClose(1, r)
    \/ \E r \in RepeatValues, pin \in Pins : CtxSetRepeat(1, pin, r)
    \/ \E pin \in Pins : OnTreeDoubleClick(1, pin)
    \/ DialogDismiss
SpecEdit == InitEdit /\ [][NextEdit]_vars

\* a session without pid next to a program's, the mic toggled
MaxOpsNoPid == 2
InitNoPid == StartWith(OneItem, {1, NoPidSession}) /\ budget = Limit(MaxOpsNoPid)
SpecNoPid == InitNoPid /\ [][RampNext]_vars
\* a session without volume interface next to a program's
MaxOpsNoVolume == 2
InitNoVolume == StartWith(OneItem, {1, NoVolumePid}) /\ budget = Limit(MaxOpsNoVolume)
SpecNoVolume == InitNoVolume /\ [][RampNext]_vars
\* a session whose calls may raise next to a program's
MaxOpsFlaky == 2
InitFlaky == StartWith(OneItem, {1, FlakyPid}) /\ budget = Limit(MaxOpsFlaky)
SpecFlaky == InitFlaky /\ [][RampNext]_vars

\* the playlist list: two playlists, selected, renamed and deleted
MaxOpsRename == 3
InitRename == (\E pls \in TickPlaylists : StartFrom(pls, {})) /\ budget = Limit(MaxOpsRename)
NextRename ==
    \/ \E new \in NameInputs : RenamePlaylist(new)
    \/ DeletePlaylist
    \/ \E i \in 1..2 : OnSelectPlaylist(i)
    \/ DialogDismiss
SpecRename == InitRename /\ [][NextRename]_vars

\* old playlist files: FM, fired at 09:00, holds a plain path string next to an item
MaxOpsLegacy == 2
LegacyFiles ==
    {<<Item("a.mp3", <<"10:00">>, 1), Item("b.mp3", <<"10:00">>, 1)>>,
     <<Item("a.mp3", <<"10:00">>, 1), Legacy("b.mp3")>>,
     <<Legacy("b.mp3"), Item("a.mp3", <<"10:00">>, 1)>>}
InitLegacy == (\E files \in LegacyFiles : Start(files)) /\ budget = Limit(MaxOpsLegacy)
NextLegacy == NextTick \/ TickRaise \/ AdvanceLong
SpecLegacy == InitLegacy /\ [][NextLegacy]_vars

\* the lock: two items, the lock button, the context menu, the editor and Play-now,
\* with the playback they start
MaxOpsLock == 2
LockRepeats == {1, 2}
InitLock == Start(TwoItems) /\ budget = Limit(MaxOpsLock)
NextLock ==
    \/ WorkerNext
    \/ \E t \in BagToSet(timers) : RestoreCall(t)
    \/ \E pin \in Pins : ToggleGlobalLock(pin)
    \/ \E idx \in 1..2, pin \in Pins : OnTreeDoubleClick(idx, pin)
    \/ \E idx \in 1..2, pin \in Pins, r \in LockRepeats : CtxSetRepeat(idx, pin, r)
    \/ \E idx \in 1..2, pin \in Pins : CtxRemoveItem(idx, pin)
    \/ \E idx \in 1..2, r \in LockRepeats : SaveAndClose(idx, r)
    \/ \E idx \in 1..2, r \in LockRepeats : PlaySelectedMedia(idx, r)
    \/ DialogDismiss
SpecLock == InitLock /\ [][NextLock]_vars

\* a missing file: the second item of the playlist is not on disk
MissingItems == <<Item("a.mp3", <<"10:00">>, 1), Item("gone.mp3", <<"10:00">>, 1)>>
InitMissing == Start(MissingItems) /\ budget = NoLimit
SpecMissing == InitMissing /\ [][NextPlay]_vars

\* repeat counts: one item with any stored repeats, fired by the playlist's time and
\* by its own at 09:00, or played now with any answer to the dialog; the file loads
\* and plays without error
InitRepeat ==
    /\ \E r \in RepeatValues : Start(<<Item("a.mp3", <<"09:00">>, r)>>)
    /\ budget = Limit(MaxOpsRepeat)
NextRepeat ==
    \/ \E w \in BagToSet(workers) : WorkerSetPlaying(w)
    \/ \E w \in BagToSet(workers) : WorkerAcquire(w)
    \/ \E w \in BagToSet(workers) : WorkerLoad(w)
    \/ \E w \in BagToSet(workers) : WorkerPlay(w)
    \/ \E w \in BagToSet(workers) : WorkerWait(w)
    \/ \E w \in BagToSet(workers) : WorkerLeave(w)
    \/ \E w \in BagToSet(workers) : WorkerFinally(w)
    \/ \E t \in BagToSet(timers) : RestoreCall(t)
    \/ \E r \in RepeatValues : PlaySelectedMedia(1, r)
    \/ \E now \in Times : ScheduleTick(now)
    \/ TickPlay
    \/ TickArm
    \/ DialogDismiss
    \/ AdvanceLong
SpecRepeat == InitRepeat /\ [][NextRepeat]_vars

\* ------------------------------------------------------------------ properties
OtherLive == live \ {OwnPid}
RestoreStep == \E t \in Pending : t.kind = "restore" /\ RestoreStage(t)

\* C1: a play_media_async call made while an earlier call's worker has not completed
\* starts no new worker, so at most one worker thread is alive at any time.
C1_OneWorkerAlive == BagCardinality(workers) <= 1

\* C2: of the requests one scheduler tick issues, at most one ever reaches
\* mixer.music.play; the others are dropped and never play later.
C2_OnePlayedPerTick == tick_played <= 1

\* C3: at most one playback worker is inside the load/play/repeat section.
C3_OneInSection == InSectionCount <= 1
\* one worker is in the section while another waits for the lock
C3_Contended == InSectionCount = 1 /\ \E w \in BagToSet(workers) : w.pc = "lock"

\* C4: while no restore has completed, the baseline saved for a session is its volume
\* at its first capture in the episode, never a later, partially ducked volume.
C4_BaselineKept == \A k \in DOMAIN saved_sessions : saved_sessions[k] = ep_base[k]

\* C5: after a completed duck episode, the final stage of a restore ramp leaves every
\* tracked session at exactly its saved baseline, empties _saved_sessions and clears
\* _duck_active.
C5_RestoreFinal ==
    [][\A t \in Pending :
         (t.kind = "restore" /\ t.i = t.steps /\ EpisodeComplete(t) /\ RestoreStage(t))
           => /\ \A k \in DOMAIN saved_sessions : vol'[k] = saved_sessions[k]
              /\ saved_sessions' = EmptyMap
              /\ ~duck_active']_vars
\* a final stage has just restored a ducked session after a completed episode
C5_Restored ==
    /\ ev.op = "restoreFinal"
    /\ ev.n > 0
    /\ \A p \in OtherLive : vol[p] = NaturalVolume[p]

\* C6: when nothing is running (no worker, mic off, no timer pending, no dialog open)
\* no session is tracked and every other session is at its pre-duck volume.
Quiescent == workers = EmptyBag /\ ~mic_active /\ timers = EmptyBag /\ Idle
C6_QuiescentUnducked ==
    Quiescent => /\ saved_sessions = EmptyMap
                 /\ \A p \in OtherPids : vol[p] = NaturalVolume[p]

C8_StartedAfterDuck == ev.op = "started" => ev.n = 1

\* C9: no stage of a restore ramp raises a session's volume while a playback worker
\* is loading or playing.
C9_NoRestoreWhilePlaying ==
    [][(RestoreStep /\ \E p \in Sessions : vol'[p] > vol[p]) => InSectionCount = 0]_vars

\* C10: while the mic passthrough is active no restore ramp stage runs and the
\* tracked-session map is not emptied.
C10_NoRestoreWhileMic ==
    [][mic_active => /\ ~RestoreStep
                     /\ saved_sessions # EmptyMap => saved_sessions' # EmptyMap]_vars

\* a worker whose loop ended without an exception, about to run its finally clause
Completed(w) == w.pc = "finally" /\ ~w.failed

C12_ClampedRepeats ==
    \A w \in BagToSet(workers) :
        Completed(w) => w.played = ClampRepeats(w.repeats, MaxRepeats)

\* a play request for a file that is not on disk is being handled by this step
MissingRequested ==
    \/ stack # <<>> /\ Head(Top).op = "play" /\ ~Exists(Head(Top).path) /\ TickPlay
    \/ \E idx \in 1..Len(playlists[current_playlist].files), r \in RepeatInputs :
          /\ ~Exists(playlists[current_playlist].files[idx].path)
          /\ PlaySelectedMedia(idx, r)

\* C13: a play request for a file that does not exist starts no worker thread and
\* issues no duck, whoever makes it (tick, playlist firing, Play-now).
C13_MissingRejected ==
    [][MissingRequested => UNCHANGED <<workers, timers, saved_sessions, duck_active>>]_vars

\* the tick has just been entered: Top holds the calls it is going to make
TickEntered == ev.op = "tick"
Range(seq) == {seq[k] : k \in DOMAIN seq}
\* how many of the tick's calls are exactly the request o
Requests(o) == Cardinality({k \in DOMAIN Top : Top[k] = o})
Inactive(pl) == "active" \in DOMAIN pl /\ pl.active = FALSE
PathsOf(pl) == {pl.files[j].path : j \in DOMAIN pl.files}

\* C14: on a tick at minute t every active playlist whose time is t issues one request
\* (with duck) per item, with the item's repeats; an active playlist with another
\* time issues no playlist-level request.
C14_PlaylistFiring ==
    TickEntered =>
      \A i \in DOMAIN playlists : \A j \in DOMAIN playlists[i].files :
         ~Inactive(playlists[i]) =>
            Requests(PlayOp(playlists[i].files[j], TRUE))
              = IF playlists[i].time = ev.now THEN 1 ELSE 0
\* a tick at 09:00 with both playlists active and due at 09:00
C14_BothFire ==
    /\ TickEntered
    /\ ev.now = "09:00"
    /\ \A i \in DOMAIN playlists : ~Inactive(playlists[i]) /\ playlists[i].time = "09:00"
    /\ Len(Top) >= 4

\* C15: on a tick at minute t an item of an active playlist gets exactly one item-level
\* request when its times contain t, and none when they do not.
C15_ItemFiring ==
    TickEntered =>
      \A i \in DOMAIN playlists : \A j \in DOMAIN playlists[i].files :
         ~Inactive(playlists[i]) =>
            Requests(PlayOp(playlists[i].files[j], FALSE))
              = IF ev.now \in Range(playlists[i].files[j].times) THEN 1 ELSE 0

\* C16: a playlist with active = false issues no request and no duck, through its own
\* time or its items' times; a playlist without the field fires like an active one.
C16_InactiveSkipped ==
    /\ TickEntered =>
         \A i \in DOMAIN playlists :
            /\ Inactive(playlists[i]) =>
                 \A k \in DOMAIN Top : Top[k].op = "play" => Top[k].path \notin PathsOf(playlists[i])
            /\ ("active" \notin DOMAIN playlists[i] /\ playlists[i].time = ev.now) =>
                 \A j \in DOMAIN playlists[i].files :
                    Requests(PlayOp(playlists[i].files[j], TRUE)) = 1
    /\ \A w \in BagToSet(workers) :
         \E i \in DOMAIN playlists : ~Inactive(playlists[i]) /\ w.path \in PathsOf(playlists[i])
    /\ (\A i \in DOMAIN playlists : Inactive(playlists[i])) => ~duck_active /\ workers = EmptyBag
\* a tick at 09:00: the inactive playlist due then is skipped, the one without the
\* field fires its two items
C16_Skipped ==
    /\ TickEntered
    /\ ev.now = "09:00"
    /\ "active" \notin DOMAIN playlists[1]
    /\ Inactive(playlists[2]) /\ playlists[2].time = "09:00"
    /\ "09:00" \in Range(playlists[1].files[1].times)
    /\ Len(Top) = 4

\* C17: once _on_close has finished the mic is stopped and every tracked session is
\* back at its recorded baseline: no session is left ducked.
C17_ClosedUnducked ==
    Closed => /\ ~mic_active /\ ~mic_stream
              /\ \A k \in DOMAIN saved_sessions : vol[k] = saved_sessions[k]
              /\ \A p \in OtherPids : vol[p] = NaturalVolume[p]

\* _start_mic has not returned yet: its error dialog is open
InStartMic == \E k \in DOMAIN stack : Head(stack[k]).op = "micfail"

\* C18: once _start_mic has returned the mic is either Stopped (_mic_active False,
\* _mic_stream None) or Active (both set); after a failed start it is Stopped, with
\* the main thread idle again so that the button can be pressed again.
C18_StoppedOrActive ==
    /\ ~InStartMic => (mic_active <=> mic_stream)
    /\ ev.op = "micFailed" => ~mic_active /\ ~mic_stream /\ Idle
\* a start attempt has just failed and been reported
C18_StartFailed == ev.op = "micFailed" /\ ~mic_active /\ ~mic_stream /\ budget.left > 0

\* C19: every processed block carries, on both output channels, the input sample times
\* the gain current at that block, with the stream left open; the gain is the slider
\* value as set, never negative and not capped at 1.0, so a block at gain 2.0 has
\* twice the amplitude it has at gain 1.0.
C19_GainApplied ==
    /\ mic_gain >= 0
    /\ ev.op = "gain" => mic_gain = ev.n
    /\ ev.op = "block" =>
         /\ mic_active /\ mic_stream
         /\ \A k \in DOMAIN ev.in : ev.out[k] = <<ev.in[k] * mic_gain, ev.in[k] * mic_gain>>
    /\ \A b \in Blocks : \A k \in DOMAIN b : \A c \in 1..2 :
         Callback(b, 2 * FullGain)[k][c] = 2 * Callback(b, FullGain)[k][c]
\* a block has just been processed at gain 2.0
C19_DoubledBlock ==
    /\ ev.op = "block"
    /\ mic_gain = 2 * FullGain
    /\ ev.in = <<2, -1>>
    /\ ev.out = <<<<400, 400>>, <<-200, -200>>>>

\* C20: a playlist imported into an empty playlist set from an exported folder has as
\* many files as the playlist the export was made from, in the same order, each with
\* the original's times and repeats and its path moved into the folder.
C20_RoundTrip ==
    (ev.op = "imported" /\ Len(playlists) = 1) =>
        LET new == playlists[current_playlist].files
            old == disk[ev.folder].src
        IN  /\ Len(new) = Len(old)
            /\ \A k \in DOMAIN new :
                 /\ k \in DOMAIN old
                 /\ new[k].times = old[k].times
                 /\ new[k].repeats = old[k].repeats
                 /\ new[k].path = Join(ev.folder, Basename(old[k].path))

\* the k-th name _import_playlist tries for a bundle named base
Candidate(base, k) == IF k = 0 THEN base ELSE base \o "_" \o ToString(k)
\* C21: an import stores the playlist under the first of name, name_1, name_2, ... that
\* is not in use, as a new playlist, and leaves every playlist there was before as it was.
C21_ImportKeepsOthers ==
    [][ev'.op = "imported" =>
         /\ Len(playlists') = Len(playlists) + 1
         /\ \A i \in DOMAIN playlists : playlists'[i] = playlists[i]
         /\ LET name == playlists'[Len(playlists')].name
                base == disk[ev'.folder].cfg.name
            IN  \E k \in 0..Len(playlists) :
                  /\ name = Candidate(base, k)
                  /\ name \notin NamesIn(playlists)
                  /\ \A j \in 0..(k - 1) : Candidate(base, j) \in NamesIn(playlists)]_vars
\* the bundle's name and name_1 were both in use: the import went to name_2
C21_ImportedTwice ==
    /\ ev.op = "imported"
    /\ Len(playlists) = 3
    /\ playlists[1].name = "FM"
    /\ playlists[2].name = "FM_1"
    /\ playlists[3].name = "FM_2"
    /\ current_playlist = 3

\* the zero-padded 24-hour HH:MM strings, the values strftime("%H:%M") takes
PaddedTimes ==
    {Str(<<h1, h2, ":", m1, m2>>) : h1 \in {"0", "1", "2"}, h2 \in Digits,
                                     m1 \in {"0", "1", "2", "3", "4", "5"}, m2 \in Digits}
      \ {Str(<<"2", h2, ":", m1, m2>>) : h2 \in {"4", "5", "6", "7", "8", "9"},
                                          m1 \in {"0", "1", "2", "3", "4", "5"}, m2 \in Digits}
\* C22: whatever is added, edited or removed in the schedule editor, every time of
\* every item is a zero-padded 24-hour HH:MM string.
C22_TimesPadded ==
    \A i \in DOMAIN playlists : \A j \in DOMAIN playlists[i].files :
        \A k \in DOMAIN playlists[i].files[j].times :
            playlists[i].files[j].times[k] \in PaddedTimes

\* C23: whatever sets an item's repeats, every item's repeats is in 1..100.
C23_RepeatsInRange ==
    \A i \in DOMAIN playlists : \A j \in DOMAIN playlists[i].files :
        playlists[i].files[j].repeats \in 1..MaxRepeats

\* C24: when the mic start fails after the toggle ducked other sessions, a restore is
\* under way once the failure has been reported.
C24_FailedStartRestores ==
    (ev.op = "micFailed" /\ saved_sessions # EmptyMap) =>
        \E t \in Pending : t.kind = "restore"

\* the frames of the main thread's stack that are a _schedule_tick under way
Ticking == {i \in DOMAIN stack : \E j \in DOMAIN stack[i] : stack[i][j].op = "arm"}
DuckCall ==
    \/ DuckAllSessions(PlayTarget, PlaySteps, timers)
    \/ DuckAllSessions(MicTarget, MicSteps, timers)
\* C26: a duck call made while an episode is under way (baselines were recorded and no
\* restore has completed since) leaves every recorded baseline as it was, records the
\* current volume of every session new to the episode, and starts a ramp over them.
C26_RepeatedDuckKeepsBaselines ==
    [][(DuckCall /\ ep_base # EmptyMap) =>
         /\ \A k \in DOMAIN ep_base :
              k \in DOMAIN saved_sessions' /\ saved_sessions'[k] = ep_base[k]
         /\ \A p \in (live \cap OtherPids) \ DOMAIN ep_base :
              /\ p \in DOMAIN saved_sessions' /\ saved_sessions'[p] = vol[p]
              /\ \E t \in BagToSet(timers') : t.kind = "duck" /\ t.i = 1 /\ p \in t.keys]_vars

\* the keys under which the session without pid is tracked
NoPidKeys == {k \in DOMAIN saved_sessions : SessionOf(k) = NoPidSession}
\* C27: the session without pid is tracked under one key at most, whatever the number
\* of duck calls, and the last stage of a restore leaves it at its pre-duck volume.
C27_OneIdentity ==
    /\ Cardinality(NoPidKeys) <= 1
    /\ ev.op \in {"restoreFinal", "restoreEarly"} =>
         vol[NoPidSession] = NaturalVolume[NoPidSession]

\* C28: the application's own session (the one excluded pid) and a session without
\* volume interface are never given a baseline, never put in a duck ramp and never
\* changed in volume.
C28_ExcludedUntouched ==
    \A s \in {OwnPid, NoVolumePid} :
        /\ s \notin DOMAIN saved_sessions
        /\ vol[s] = NaturalVolume[s]
        /\ \A t \in Pending : t.kind = "duck" => s \notin t.keys
\* a duck ramp has run to its end over the other program's session only
C28_OthersDucked ==
    /\ NoVolumePid \in live
    /\ duck_active
    /\ DOMAIN saved_sessions = {1}
    /\ vol[1] = MicTarget
    /\ ~DuckPending

\* v is the value baseline + (target - baseline) * i / steps kept within [0,1], in
\* whole hundredths (rounded down)
OnDuckLine(v, baseline, target, i, steps) ==
    LET exact == steps * baseline + (target - baseline) * i
    IN  IF exact < 0 THEN v = 0
        ELSE IF exact > steps * FullVolume THEN v = FullVolume
        ELSE steps * v <= exact /\ exact < steps * v + steps
\* C29: a duck ramp running alone over tracked sessions puts every one of them, at stage
\* i of steps, at baseline + (target - baseline) * i / steps; stage i < steps arms stage
\* i + 1 and nothing else, stage `steps` arms nothing, leaves every session at the
\* target and sets _duck_active.
C29_DuckRamp ==
    [][\A t \in Pending :
         (t.kind = "duck" /\ timers = One(t) /\ t.keys \subseteq DOMAIN saved_sessions
            /\ DuckStage(t))
           => /\ t.i \in 1..t.steps
              /\ \A k \in t.keys :
                   OnDuckLine(vol'[k], saved_sessions[k], t.target, t.i, t.steps)
              /\ t.i < t.steps => timers' = One([t EXCEPT !.i = t.i + 1])
              /\ t.i = t.steps => /\ timers' = EmptyBag
                                  /\ duck_active'
                                  /\ \A k \in t.keys : vol'[k] = t.target]_vars
\* a ramp over two sessions has run its six stages
C29_RampDone ==
    /\ duck_active
    /\ timers = EmptyBag
    /\ DOMAIN saved_sessions = {1, 2}
    /\ saved_sessions[1] = 80 /\ saved_sessions[2] = 50
    /\ vol[1] = MicTarget /\ vol[2] = MicTarget

\* the tracked keys of a pass other than the session whose calls raise
Others(keys) == keys \ {FlakyPid}
\* C30: in a stage that also handles a session whose calls may raise, every other
\* session is still set to the stage's value and the next stage is armed; the last
\* restore stage leaves the others at their baselines and clears the tracked map.
C30_OthersStillRamped ==
    [][\A t \in Pending :
         /\ (t.kind = "duck" /\ FlakyPid \in t.keys /\ DuckStage(t))
              => /\ \A k \in Others(t.keys) :
                      vol'[k] = DuckVolume(Baseline(k), t.target, t.i, t.steps)
                 /\ t.i < t.steps => [t EXCEPT !.i = t.i + 1] \in BagToSet(timers')
         /\ (t.kind = "restore" /\ FlakyPid \in DOMAIN saved_sessions \cap t.keys
               /\ RestoreStage(t))
              => IF t.i < t.steps
                   THEN /\ \A k \in Others(DOMAIN saved_sessions \cap t.keys) :
                             vol'[k] = RestoreVolume(vol[k], saved_sessions[k], t.i, t.steps)
                        /\ [t EXCEPT !.i = t.i + 1] \in BagToSet(timers')
                   ELSE /\ \A k \in Others(DOMAIN saved_sessions \cap t.keys) :
                             vol'[k] = saved_sessions[k]
                        /\ saved_sessions' = EmptyMap
                        /\ ~duck_active']_vars
\* a restore has ended with the other program back at its volume although every set
\* on the closing session raised
C30_RestoredDespiteFailure ==
    /\ ev.op = "restoreFinal"
    /\ saved_sessions = EmptyMap
    /\ vol[1] = NaturalVolume[1]
    /\ vol[FlakyPid] = MicTarget

\* C31: a rename leaves the number of playlists as it was and every playlist other than
\* the renamed one still there with its content.
C31_RenameKeepsOthers ==
    [][ev'.op = "renamed" =>
         /\ Len(playlists') = Len(playlists)
         /\ \A i \in DOMAIN playlists \ {current_playlist} :
              \E j \in DOMAIN playlists' : playlists'[j] = playlists[i]]_vars

\* C32: _is_playing is True whenever a playback worker has been started and has not
\* finished, so that play_media_async rejects every request made in the meantime.
C32_PlayingWhileWorker == workers # EmptyBag => is_playing /\ Busy

\* a _schedule_tick is under way: a frame that still has to arm, or to raise
TickFrames ==
    {i \in DOMAIN stack : \E j \in DOMAIN stack[i] : stack[i][j].op \in {"arm", "raise"}}
\* C33: the scheduler keeps ticking: whenever no tick is under way the timer of the
\* next one is pending.
C33_TickRearmed == TickFrames = {} => tick_timers.far + tick_timers.near >= 1

\* C34: a step that begins and ends with the lock locked leaves every playlist's items,
\* their times and their repeats as they were.
C34_LockedItemsKept ==
    [][(global_locked /\ global_locked') =>
         /\ Len(playlists') = Len(playlists)
         /\ \A i \in DOMAIN playlists : playlists'[i].files = playlists[i].files]_vars

=============================================================================
